---- MODULE Spec2Model ----
(***************************************************************************)
(* HL7 to JSON converter (src/main.py): HL7Converter.process_file reads a  *)
(* markdown document, extracts the fenced blocks with a regular            *)
(* expression, converts each block with the hl7conv2 parser and writes an  *)
(* ordered report of per-message outcomes.                                 *)
(*                                                                         *)
(* A text is a sequence of characters; a character is a one-element        *)
(* string.  The backtick is written BT.                                    *)
(***************************************************************************)
EXTENDS Integers, Sequences, FiniteSets, TLC

\* ------------------------------------------------------------------ bounds
MaxPieces == 5      \* a document is at most this many pieces long
MaxKeys == 1        \* a parsed message has at most this many keys
MaxMainPieces == 3  \* length in pieces of the documents given to main()
MaxArgv == 4        \* len(sys.argv) is at most this
MaxPhoneLen == 3    \* length of the phone strings that are enumerated
MaxRows == 2        \* number of cells of the phone column
MaxDraw == 3        \* random.choice picks among this many first elements
MaxLastDraw == 1    \* and among this many first elements of the last names
MaxGuiMessages == 1 \* process_file called from the GUI finds at most this many

\* -------------------------------------------------------------- characters
BT == "BACKTICK"
NL == "\n"

\* the literal parts of the pattern r'```\n(.*?)\n```'
OpenMarker == <<BT, BT, BT, NL>>
CloseMarker == <<NL, BT, BT, BT>>
Fence == <<BT, BT, BT>>

\* the pieces documents are built from
Pieces == {OpenMarker, CloseMarker, Fence, <<NL>>, <<"a">>, <<"b">>}

RECURSIVE Flatten(_)
Flatten(ps) == IF ps = <<>> THEN <<>> ELSE Head(ps) \o Flatten(Tail(ps))

DocsUpTo(m) == UNION {{Flatten(ps) : ps \in [1..n -> Pieces]} : n \in 0..m}

Docs == DocsUpTo(MaxPieces)

\* ------------------------------------------------------------ Python values
PyNone == <<"NoneType">>
PyStr(s) == <<"str", s>>
PyDict(n) == <<"dict", n>>      \* a dict with n keys

\* bool(v) as Python evaluates it in `if json_data:`
Truthy(v) ==
    CASE v = PyNone -> FALSE
      [] v[1] = "dict" -> v[2] > 0
      [] v[1] = "str" -> v[2] # ""
      [] OTHER -> TRUE

\* ------------------------------------------------- the regular expression
\* the literal lit matches s at position p
MatchAt(s, p, lit) ==
    /\ p + Len(lit) - 1 <= Len(s)
    /\ \A j \in 1..Len(lit) : s[p + j - 1] = lit[j]

\* (.*?) with re.DOTALL followed by \n```: the group grows one character at a
\* time from q until the closing marker matches; 0 when it never does
RECURSIVE LazyEnd(_, _)
LazyEnd(s, q) ==
    IF q + Len(CloseMarker) - 1 > Len(s) THEN 0
    ELSE IF MatchAt(s, q, CloseMarker) THEN q
    ELSE LazyEnd(s, q + 1)

\* (.*) instead of (.*?): the group takes the longest span
RECURSIVE GreedyEndFrom(_, _)
GreedyEndFrom(s, q) ==
    IF q < 1 THEN 0
    ELSE IF MatchAt(s, q, CloseMarker) THEN q
    ELSE GreedyEndFrom(s, q - 1)

GreedyEnd(s, q) ==
    LET e == GreedyEndFrom(s, Len(s) - Len(CloseMarker) + 1)
    IN IF e >= q THEN e ELSE 0

GroupEnd(s, q) == LazyEnd(s, q)

\* the matches of the pattern in s from position p on, left to right and
\* non-overlapping: [from, to] is the whole match, [gfrom, gto] the group
RECURSIVE re_finditer(_, _)
re_finditer(s, p) ==
    IF p > Len(s) THEN <<>>
    ELSE IF MatchAt(s, p, OpenMarker)
         THEN LET g == p + Len(OpenMarker)
                  q == GroupEnd(s, g)
              IN IF q = 0 THEN re_finditer(s, p + 1)
                 ELSE <<[from |-> p, to |-> q + Len(CloseMarker) - 1,
                         gfrom |-> g, gto |-> q - 1]>>
                      \o re_finditer(s, q + Len(CloseMarker))
         ELSE re_finditer(s, p + 1)

\* re.findall with one group returns the group of each match
re_findall(s) ==
    LET ms == re_finditer(s, 1)
    IN [k \in 1..Len(ms) |-> SubSeq(s, ms[k].gfrom, ms[k].gto)]

\* lines 44-51; the read of the file is part of the Extract action
extract_or_whole_text(text) ==
    IF re_findall(text) = <<>> THEN <<text>> ELSE re_findall(text)

extract_hl7_messages_from_markdown(text) == re_findall(text)

\* ------------------------------------------------------------- the parser
\* Hl7Json(hl7_message).hl7_json either returns a dict or raises
ExceptionClasses == {"ValueError", "MemoryError"}        \* subclasses of Exception
BaseExceptionOnly == {"KeyboardInterrupt"}               \* BaseException, not Exception

ParserOutcomes ==
    {[kind |-> "return", value |-> PyDict(n)] : n \in 0..MaxKeys}
    \cup {[kind |-> "raise", cls |-> "ValueError", msg |-> "bad segment"],
          [kind |-> "raise", cls |-> "MemoryError", msg |-> ""],
          [kind |-> "raise", cls |-> "KeyboardInterrupt", msg |-> ""]}

\* a bare `except:` catches every class
CaughtAll(cls) == TRUE

\* no try/except around the parser
CaughtNothing(cls) == FALSE

\* `except Exception` at line 69 catches the class
IsException(cls) == cls \in ExceptionClasses

\* convert_hl7_to_json on a message for which the parser behaves as o:
\* (json_data, None), (None, str(e)), or the exception propagates
convert_hl7_to_json(o) ==
    IF o.kind = "return"
    THEN [propagates |-> FALSE, json_data |-> o.value, error |-> PyNone]
    ELSE IF IsException(o.cls)
         THEN [propagates |-> FALSE, json_data |-> PyNone, error |-> PyStr(o.msg)]
         ELSE [propagates |-> TRUE, json_data |-> PyNone, error |-> PyNone]

\* ------------------------------------------------------------------ files
NoFile == [exists |-> FALSE, stale |-> FALSE, entries |-> <<>>, complete |-> FALSE]
StaleFile == [exists |-> TRUE, stale |-> TRUE, entries |-> <<>>, complete |-> TRUE]
Report(rs) == [exists |-> TRUE, stale |-> FALSE, entries |-> rs, complete |-> TRUE]
Partial(rs) == [exists |-> TRUE, stale |-> FALSE, entries |-> rs, complete |-> FALSE]

\* ------------------------------------------------------------------ state
VARIABLES
    \* HL7Converter.process_file
    pc,          \* position in process_file
    content,     \* text of the input document
    outFile,     \* the file at the output path
    messages,    \* the extracted candidates
    i,           \* number of loop iterations started
    results,     \* the outcomes appended so far
    successful,
    failed,
    calls,       \* the parser invocations so far: message and behaviour
    exc,         \* the exception that left process_file, "" when none
    ret,         \* the returned tuple, <<>> before the return
    handles,     \* the file handles that are open
    acquired,    \* how many times each handle has been opened
    \* main()
    mainPc,      \* position in main
    argv,        \* the command line: number of arguments, does the input exist
    exitStatus,  \* the status main exited with, -1 while it has not
    stdout,      \* the lines printed
    \* clean_phone_number
    phone_number,    \* the argument
    cleaned_number,  \* the returned value, <<>> before the return
    \* convert_excel_to_custom_csv
    csvPc,
    phone_numbers_series,  \* the cells of the phone column
    output_data_rows,
    csvFile,     \* the file at output_csv_path: was it saved, and its rows
    script,               \* which of the two scripts is running
    generated_names_set,  \* excel-to-contacts.py: the name tuples used so far
    attempt,              \* excel-to-contacts.py: attempts made for this row
    names_drawn,          \* first_name, middle_name, last_name as last drawn
    \* HL7ConverterGUI
    input_file,
    output_file,
    convert_button,  \* the Convert button is enabled
    results_text,    \* the lines of the results area
    dialog           \* the last dialog shown and what it returned

pfVars == <<pc, content, outFile, messages, i, results, successful, failed,
            calls, exc, ret, handles, acquired>>
mainVars == <<mainPc, argv, exitStatus, stdout>>
phoneVars == <<phone_number, cleaned_number>>
csvVars == <<csvPc, phone_numbers_series, output_data_rows, csvFile,
             script, generated_names_set, attempt, names_drawn>>
guiVars == <<input_file, output_file, convert_button, results_text, dialog>>

vars == <<pfVars, mainVars, phoneVars, csvVars, guiVars>>

\* the parts of the program that are not running
MainIdle ==
    /\ mainPc = "idle"
    /\ argv = [n |-> 0, input_exists |-> FALSE]
    /\ exitStatus = -1
    /\ stdout = <<>>

PhoneIdle ==
    /\ phone_number = PyNone
    /\ cleaned_number = <<>>

NoNames == [first_name |-> "", middle_name |-> "", last_name |-> ""]

CsvIdle ==
    /\ csvPc = "idle"
    /\ phone_numbers_series = <<>>
    /\ output_data_rows = <<>>
    /\ csvFile = [saved |-> FALSE, rows |-> <<>>]
    /\ script = ""
    /\ generated_names_set = {}
    /\ attempt = 0
    /\ names_drawn = NoNames

GuiIdle ==
    /\ input_file = ""
    /\ output_file = ""
    /\ convert_button = FALSE
    /\ results_text = <<>>
    /\ dialog = [kind |-> "none", result |-> ""]

\* process_file is not running
PfIdle ==
    /\ pc = "idle"
    /\ content = <<>>
    /\ outFile = NoFile
    /\ messages = <<>>
    /\ i = 0
    /\ results = <<>>
    /\ successful = 0
    /\ failed = 0
    /\ calls = <<>>
    /\ exc = ""
    /\ ret = <<>>
    /\ handles = {}
    /\ acquired = [h \in {"input", "output"} |-> 0]

\* process_file has been called with a document and an output path
ProcessFileInit(docs) ==
    /\ content \in docs
    /\ outFile \in {NoFile, StaleFile}
    /\ messages = <<>>
    /\ i = 0
    /\ results = <<>>
    /\ successful = 0
    /\ failed = 0
    /\ calls = <<>>
    /\ exc = ""
    /\ ret = <<>>
    /\ handles = {}
    /\ acquired = [h \in {"input", "output"} |-> 0]

Init ==
    /\ pc = "start"
    /\ ProcessFileInit(Docs)
    /\ MainIdle
    /\ PhoneIdle
    /\ CsvIdle
    /\ GuiIdle

\* the dict built at lines 97-101 for the message with 0-based index idx
SuccessResultIndex0(idx, json_data) ==
    [message_index |-> idx,
     conversion_status |-> "success",
     data |-> json_data]

SuccessResult(idx, json_data) ==
    [message_index |-> idx + 1,
     conversion_status |-> "success",
     data |-> json_data]

\* the dict built at lines 106-111
FailedResultWrongStatus(idx, error, message) ==
    [message_index |-> idx + 1,
     conversion_status |-> "success",
     error |-> error,
     original_message |-> message]

FailedResult(idx, error, message) ==
    [message_index |-> idx + 1,
     conversion_status |-> "failed",
     error |-> error,
     original_message |-> message]

\* results = [result] instead of results.append(result)
results_overwrite(rs, r) == <<r>>

\* results.append(result), lines 102 and 112
results_append_success_only(rs, r) ==
    IF r.conversion_status = "failed" THEN rs ELSE Append(rs, r)

results_append(rs, r) == Append(rs, r)

\* the test of `if json_data:` at line 95
TakesSuccessBranch(json_data) == Truthy(json_data)

\* leaving a `with open(...) as file:` block, normally or by an exception,
\* closes the file
no_close(hs, h) == hs

with_exit(hs, h) == hs \ {h}

\* line 44: open the input document
OpenInput ==
    /\ pc = "start"
    /\ \E opens \in BOOLEAN :
        IF opens
        THEN /\ handles' = handles \cup {"input"}
             /\ acquired' = [acquired EXCEPT !["input"] = @ + 1]
             /\ pc' = "reading"
             /\ exc' = exc
        ELSE /\ UNCHANGED <<handles, acquired>>
             /\ pc' = "raised"
             /\ exc' = "OSError on input"
    /\ UNCHANGED <<content, outFile, messages, i, results, successful, failed,
                   calls, ret>>
    /\ UNCHANGED <<mainVars, phoneVars, csvVars, guiVars>>

\* lines 45-51 and 87-89: read the document, leave the with block, extract
\* the candidates, then initialise the counters
Extract ==
    /\ pc = "reading"
    /\ handles' = with_exit(handles, "input")
    /\ \E readable \in BOOLEAN :
        IF readable
        THEN /\ messages' = extract_hl7_messages_from_markdown(content)
             /\ pc' = "loop"
             /\ exc' = exc
        ELSE /\ messages' = messages
             /\ pc' = "raised"
             /\ exc' = "OSError on input"
    /\ successful' = 0
    /\ failed' = 0
    /\ results' = <<>>
    /\ i' = 0
    /\ UNCHANGED <<content, outFile, calls, ret, acquired>>
    /\ UNCHANGED <<mainVars, phoneVars, csvVars, guiVars>>

\* lines 92-113: one iteration of the loop
Iterate ==
    /\ pc = "loop"
    /\ i < Len(messages)
    /\ \E o \in ParserOutcomes :
        LET message == messages[i + 1]
            r == convert_hl7_to_json(o)
        IN /\ calls' = Append(calls, [message |-> message, outcome |-> o])
           /\ i' = i + 1
           /\ IF r.propagates
              THEN /\ pc' = "raised"
                   /\ exc' = o.cls
                   /\ UNCHANGED <<results, successful, failed>>
              ELSE /\ pc' = pc
                   /\ exc' = exc
                   /\ IF TakesSuccessBranch(r.json_data)
                      THEN /\ results' = results_append(results, SuccessResult(i, r.json_data))
                           /\ successful' = successful + 1
                           /\ failed' = failed
                      ELSE /\ results' = results_append(results, FailedResult(i, r.error, message))
                           /\ failed' = failed + 1
                           /\ successful' = successful
    /\ UNCHANGED <<content, outFile, messages, ret, handles, acquired>>
    /\ UNCHANGED <<mainVars, phoneVars, csvVars, guiVars>>

\* line 116 placed inside the loop body: the report is opened after any
\* iteration
OpenOutputInsideLoop ==
    /\ pc = "loop"
    /\ i > 0
    /\ outFile' = Partial(<<>>)
    /\ handles' = handles \cup {"output"}
    /\ acquired' = [acquired EXCEPT !["output"] = @ + 1]
    /\ pc' = "writing"
    /\ UNCHANGED <<content, messages, i, results, successful, failed, calls,
                   ret, exc>>
    /\ UNCHANGED <<mainVars, phoneVars, csvVars, guiVars>>

\* line 116, after the loop: open the output for writing, which truncates it
OpenOutput ==
    /\ pc = "loop"
    /\ i = Len(messages)
    /\ \E opens \in BOOLEAN :
        IF opens
        THEN /\ outFile' = Partial(<<>>)
             /\ handles' = handles \cup {"output"}
             /\ acquired' = [acquired EXCEPT !["output"] = @ + 1]
             /\ pc' = "writing"
             /\ exc' = exc
        ELSE /\ UNCHANGED <<outFile, handles, acquired>>
             /\ pc' = "raised"
             /\ exc' = "OSError on output"
    /\ UNCHANGED <<content, messages, i, results, successful, failed, calls, ret>>
    /\ UNCHANGED <<mainVars, phoneVars, csvVars, guiVars>>

\* line 117 and the end of the with block: dump the results, close the file
Write ==
    /\ pc = "writing"
    /\ handles' = with_exit(handles, "output")
    /\ \E dumps \in BOOLEAN :
        IF dumps
        THEN /\ outFile' = Report(results)
             /\ pc' = "written"
             /\ exc' = exc
        ELSE /\ \E n \in 0..Len(results) :
                   outFile' = Partial(SubSeq(results, 1, n))
             /\ pc' = "raised"
             /\ exc' = "OSError on output"
    /\ UNCHANGED <<content, messages, i, results, successful, failed, calls,
                   ret, acquired>>
    /\ UNCHANGED <<mainVars, phoneVars, csvVars, guiVars>>

\* line 119
Return ==
    /\ pc = "written"
    /\ ret' = <<successful, failed>>
    /\ pc' = "done"
    /\ UNCHANGED <<content, outFile, messages, i, results, successful, failed,
                   calls, exc, handles, acquired>>
    /\ UNCHANGED <<mainVars, phoneVars, csvVars, guiVars>>

Next == OpenInput \/ Extract \/ Iterate \/ OpenOutput \/ Write \/ Return

Spec == Init /\ [][Next]_vars

\* process_file is sequential code that keeps running until it returns or
\* raises
LiveSpec == Init /\ [][Next]_vars /\ WF_vars(Next)

TypeOK ==
    /\ pc \in {"idle", "start", "reading", "loop", "writing", "written", "done", "raised"}
    /\ i \in 0..Len(messages)
    /\ Len(calls) = i
    /\ Len(results) <= i
    /\ exc \in {"", "OSError on input", "OSError on output"} \cup BaseExceptionOnly
    /\ handles \subseteq {"input", "output"}

\* ------------------------------------------------------------------ main()
\* `if not os.path.exists(input_file):` at line 264
NeverMissing(a) == FALSE

InputMissing(a) == ~a.input_exists

MainInit ==
    /\ pc = "idle"
    /\ ProcessFileInit(DocsUpTo(MaxMainPieces))
    /\ mainPc = "start"
    /\ argv \in [n : 1..MaxArgv, input_exists : BOOLEAN]
    /\ exitStatus = -1
    /\ stdout = <<>>
    /\ PhoneIdle
    /\ CsvIdle
    /\ GuiIdle

\* lines 256-269: check the arguments, then call process_file or exit
MainStart ==
    /\ mainPc = "start"
    /\ IF argv.n > 1
       THEN IF argv.n < 3
            THEN /\ stdout' = Append(stdout, [text |-> "Usage"])
                 /\ exitStatus' = 1
                 /\ mainPc' = "exited"
                 /\ pc' = pc
            ELSE IF InputMissing(argv)
                 THEN /\ stdout' = Append(stdout, [text |-> "Error: Input file not found"])
                      /\ exitStatus' = 1
                      /\ mainPc' = "exited"
                      /\ pc' = pc
                 ELSE /\ stdout' = Append(stdout, [text |-> "Processing"])
                      /\ exitStatus' = exitStatus
                      /\ mainPc' = "called"
                      /\ pc' = "start"
       ELSE /\ mainPc' = "gui"
            /\ UNCHANGED <<stdout, exitStatus, pc>>
    /\ UNCHANGED <<content, outFile, messages, i, results, successful, failed,
                   calls, exc, ret, handles, acquired>>
    /\ UNCHANGED <<argv, phoneVars, csvVars, guiVars>>

\* lines 269-274: process_file returned, print the summary
MainReport ==
    /\ mainPc = "called"
    /\ pc = "done"
    /\ stdout' = stdout \o
          << [text |-> "Conversion complete"],
             [text |-> "Successfully converted", value |-> ret[1]],
             [text |-> "Failed conversions", value |-> ret[2]],
             [text |-> "Output saved to", value |-> "output_file"] >>
    /\ exitStatus' = 0
    /\ mainPc' = "returned"
    /\ UNCHANGED <<pfVars, argv, phoneVars, csvVars, guiVars>>

\* line 269: process_file raised, nothing in main catches it
MainRaise ==
    /\ mainPc = "called"
    /\ pc = "raised"
    /\ exitStatus' = 1
    /\ mainPc' = "exited"
    /\ UNCHANGED <<pfVars, argv, stdout, phoneVars, csvVars, guiVars>>

MainNext ==
    \/ MainStart
    \/ OpenInput \/ Extract \/ Iterate \/ OpenOutput \/ Write \/ Return
    \/ MainReport
    \/ MainRaise

SpecMain == MainInit /\ [][MainNext]_vars

\* ------------------------------------------------------ clean_phone_number
\* (src/excel_to_contacts.py; src/excel-to-contacts.py has the same function)
Digits == {"0", "1", "2", "3", "4", "5", "6", "7", "8", "9"}
DigitChar(d) == <<"0", "1", "2", "3", "4", "5", "6", "7", "8", "9">>[d + 1]

PyInt(n) == <<"int", n>>
PyNaN == <<"float", "nan">>       \* an empty cell as pandas reads it

\* str(n) of an int
RECURSIVE NatToStr(_)
NatToStr(n) ==
    IF n < 10 THEN <<DigitChar(n)>>
    ELSE NatToStr(n \div 10) \o <<DigitChar(n % 10)>>

IntToStr(n) == IF n < 0 THEN <<"-">> \o NatToStr(0 - n) ELSE NatToStr(n)

\* str(v), line 48
py_str(v) ==
    CASE v[1] = "str" -> v[2]
      [] v[1] = "int" -> IntToStr(v[2])
      [] v[1] = "float" -> <<"n", "a", "n">>
      [] OTHER -> <<"N", "o", "n", "e">>

\* phone_number.startswith('+'), line 51
startswith_plus(s) == Len(s) > 0 /\ s[1] = "+"

IsDigit(c) == c \in Digits
IsDigitOrPlus(c) == c \in Digits \cup {"+"}

\* re.sub(r'[^0-9+]', '', s)
re_sub_keeping_plus(s) == SelectSeq(s, IsDigitOrPlus)

\* re.sub(r'[^0-9]', '', s), line 54
re_sub_non_digits(s) == SelectSeq(s, IsDigit)

\* lines 46-60; the text of the returned str
clean_phone_number(v) ==
    LET s == IF v[1] # "str" THEN py_str(v) ELSE v[2]
        has_plus == startswith_plus(s)
        cleaned == re_sub_non_digits(s)
    IN IF has_plus THEN <<"+">> \o cleaned ELSE cleaned

\* the inputs of test_clean_phone_number (src/test_phone_numbers.py:14-23)
\* named in the documentation, and what the test expects
Example1 == <<"+", "7", "9", "9", "9", "7", "4", "5", "-", "1", "2", "-", "1", "5">>
Expected1 == <<"+", "7", "9", "9", "9", "7", "4", "5", "1", "2", "1", "5">>
Example2 == <<"(", "1", "2", "3", ")", " ", "4", "5", "6", "-", "7", "8", "9", "0">>
Expected2 == <<"1", "2", "3", "4", "5", "6", "7", "8", "9", "0">>
Example3 == 1234567890

PhoneAlphabet == {"+", "1", "2", "-", " "}

PhoneInputs ==
    {PyStr(t) : t \in UNION {[1..n -> PhoneAlphabet] : n \in 0..MaxPhoneLen}}
    \cup {PyStr(Example1), PyStr(Example2), PyStr(<<"1", ".", "5">>)}
    \cup {PyInt(Example3), PyInt(0), PyInt(0 - 12), PyNaN, PyNone}

PhoneInit ==
    /\ phone_number \in PhoneInputs
    /\ cleaned_number = <<>>
    /\ PfIdle
    /\ MainIdle
    /\ CsvIdle
    /\ GuiIdle

\* one call of clean_phone_number
CleanPhone ==
    /\ cleaned_number = <<>>
    /\ cleaned_number' = PyStr(clean_phone_number(phone_number))
    /\ UNCHANGED <<phone_number, pfVars, mainVars, csvVars, guiVars>>

PhoneNext == CleanPhone

SpecPhone == PhoneInit /\ [][PhoneNext]_vars

\* ---------------------------------------------- convert_excel_to_custom_csv
\* (src/excel_to_contacts.py)
FIRST_NAMES ==
    <<"Mohammed", "Ahmed", "Ali", "Omar", "Yusuf", "Ibrahim", "Hassan",
      "Hussein", "Khalid", "Mustafa", "Abdullah", "Abdulrahman", "Saad",
      "Faisal", "Tariq", "Zayd", "Bilal", "Hamza", "Idris", "Ismail",
      "Fatima", "Aisha", "Khadija", "Zainab", "Maryam", "Amina", "Hafsa",
      "Safiya", "Ruqayyah", "Sumayyah", "Layla", "Noor", "Hana", "Sara",
      "Yasmin", "Farah", "Samira", "Nadia", "Iman", "Salma">>

MIDDLE_NAMES ==
    <<"Ali", "Hassan", "Hussein", "Ahmed", "Khan", "Mohammed", "Abdul",
      "Din", "Uddin", "Al", "Noor", "Zahra", "Banu", "Begum", "Sultana",
      "Khatun", "Ibn", "Bin", "Bint", "El", "Al-">>

LAST_NAMES ==
    <<"Khan", "Hussain", "Ahmed", "Ali", "Mohammed", "Syed", "Sheikh",
      "Malik", "Mirza", "Beg", "Qureshi", "Siddiqui", "Ansari", "Farooqi",
      "Usmani", "Chaudhry", "Abbasi", "Jafari", "Kazmi", "Rizvi", "Hassan",
      "Rahman", "Abdullah", "Iqbal", "Sharif", "Bakr", "Omar", "Osman",
      "Zaman", "Alvi">>

\* the name lists of the second script (src/excel-to-contacts.py)
FIRST_NAMES_2 ==
    <<"Mohammed", "Ahmed", "Ali", "Omar", "Yusuf", "Ibrahim", "Hassan",
      "Hussein", "Khalid", "Mustafa", "Abdullah", "Abdulrahman", "Saad",
      "Faisal", "Tariq", "Zayd", "Bilal", "Hamza", "Idris", "Ismail",
      "Fatima", "Aisha", "Khadija", "Zainab", "Maryam", "Amina", "Hafsa",
      "Safiya", "Ruqayyah", "Sumayyah", "Layla", "Noor", "Hana", "Sara",
      "Yasmin", "Farah", "Samira", "Nadia", "Iman", "Salma", "Jamal",
      "Karim", "Rashid", "Malik", "Nasir", "Aziz", "Hakim", "Rafiq",
      "Tahir", "Waqar", "Zubair", "Anwar", "Imran", "Jawad", "Naveed",
      "Qadir", "Salim", "Umar", "Wasim", "Yasir", "Asad", "Bashir",
      "Dawood", "Fahad", "Ghazi", "Haroon", "Irfan", "Jameel", "Kamran",
      "Latif", "Munir", "Nabeel", "Qasim", "Raheem", "Shahid", "Taimur",
      "Usama", "Waheed", "Zahir", "Adnan", "Fatimah", "Ayesha", "Khadijah",
      "Zaynab", "Mariam", "Aminah", "Hafsah", "Safiyyah", "Ruqayyah",
      "Sumayya", "Leila", "Nur", "Hannah", "Sarah", "Yasmeen", "Farha",
      "Sameera", "Nadiyah", "Imaan", "Salmah", "Asiya", "Basimah", "Dalal",
      "Farida", "Ghada", "Halima", "Ibtisam", "Jameela", "Karima", "Lubna",
      "Madiha", "Nabeela", "Qamra", "Rabia", "Safia", "Tahira", "Uzma",
      "Wafa", "Zara", "Aliyah", "Bushra", "Dalia", "Fariha", "Huda",
      "Inaya", "Jannah", "Kenza", "Latifa", "Malika", "Nabila", "Qamar",
      "Rania", "Sabrina", "Tala", "Umm", "Warda", "Zahra", "Amal",
      "Badriyah", "Dina", "Amira", "Rami", "Samah", "Najib", "Samiya",
      "Rabab", "Munira", "Gamal", "Mona", "Rashida", "Sahar", "Faris",
      "Yara", "Rana", "Hatem", "Lina", "Ramiya", "Nour", "Majid", "Rania",
      "Abeer", "Sami", "Mazin", "Nada", "Salem", "Nidal", "Maysa", "Rafif",
      "Jad", "Sawsan", "Ayman", "Hala", "Nashwa", "Tamer", "Nihal", "Ruba",
      "Hossam", "Amani", "Khalil", "Dina", "Fadi", "Rima", "Shadi", "Maha",
      "Nouran", "Ola", "Heba", "Tala", "Rashed", "Siham">>

MIDDLE_NAMES_2 ==
    <<"Ali", "Hassan", "Hussein", "Ahmed", "Khan", "Mohammed", "Abdul",
      "Din", "Uddin", "Al", "Noor", "Zahra", "Banu", "Begum", "Sultana",
      "Khatun", "Ibn", "Bin", "Bint", "El", "Al-", "Abid", "Adil", "Akbar",
      "Amir", "Anwar", "Arif", "Asif", "Azam", "Badr", "Basim", "Deen",
      "Ehsan", "Faiz", "Fareed", "Fawaz", "Habib", "Hadi", "Hafiz",
      "Hakeem", "Halim", "Hamid", "Haris", "Hasan", "Hashim", "Haytham",
      "Hikmat", "Hisham", "Ihsan", "Imad", "Isa", "Jabbar", "Jalal",
      "Jamal", "Jamil", "Jawad", "Jibril", "Kamal", "Kareem", "Khalil",
      "Latif", "Mahdi", "Mahmoud", "Majid", "Mansoor", "Marwan", "Mubarak",
      "Mubin", "Mumtaz", "Munir", "Musa", "Naeem", "Nasir", "Numan", "Nur",
      "Qasim", "Rafiq", "Raheem", "Rashid", "Raza", "Ridwan", "Sabir",
      "Sadiq", "Saeed", "Salah", "Saleem", "Salim", "Samad", "Sami",
      "Samir", "Shakir", "Sharif", "Shihab", "Siddiq", "Tahir", "Talib",
      "Taqi", "Tariq", "Tawfiq", "Wafi", "Wajid", "Waleed", "Wasim",
      "Yaseen", "Yasir", "Yousef", "Yusuf", "Zafar", "Zahid", "Zaid",
      "Zain", "Aaliyah", "Afifa", "Alima", "Amira", "Anisa", "Arwa", "Asma",
      "Aziza", "Bahija", "Basima", "Fadila", "Faiza", "Farida", "Habiba",
      "Hafsa", "Hajra", "Halima", "Hamida", "Hanifa", "Hasna", "Huda",
      "Ihsan", "Inaya", "Jamilah", "Karima", "Khalida", "Latifa", "Lubna",
      "Madiha", "Manal", "Maryam", "Munira", "Nabila", "Nadira", "Naima",
      "Najma", "Nasreen", "Nawra", "Nazira", "Nusrat", "Qadira", "Rabia",
      "Rahima", "Rashida", "Razia", "Sabira", "Sadiqa", "Safiya", "Sahar",
      "Saida", "Sakina", "Salima", "Samira", "Shahida", "Shakira", "Shamsa",
      "Shirin", "Siddiqah", "Tahira", "Taliba", "Tamara", "Taqwa", "Thana",
      "Umayma", "Wafaa", "Wahida", "Warda", "Wasima", "Yumna", "Zahira",
      "Zahra", "Zakiya", "Zainab", "Zubaidah", "Rasheed", "Haleem", "Adeel",
      "Sami", "Sajid", "Naseem", "Imran", "Younis", "Shahzad", "Zeeshan",
      "Farooq", "Sadiq", "Saif", "Kareem", "Tariq", "Amin", "Rafique",
      "Feroz", "Waseem", "Hafiz", "Riaz", "Aslam", "Sultan", "Aftab",
      "Rauf", "Naeem", "Waheed", "Fawad", "Shabbir", "Qadeer", "Mehmood",
      "Rashida", "Nighat", "Shazia", "Sadia", "Lubna", "Shamim", "Mumtaz",
      "Nazia", "Parveen">>

LAST_NAMES_2 ==
    <<"Khan", "Hussain", "Ahmed", "Ali", "Mohammed", "Syed", "Sheikh",
      "Malik", "Mirza", "Beg", "Qureshi", "Siddiqui", "Ansari", "Farooqi",
      "Usmani", "Chaudhry", "Abbasi", "Jafari", "Kazmi", "Rizvi", "Hassan",
      "Rahman", "Abdullah", "Iqbal", "Sharif", "Bakr", "Omar", "Osman",
      "Zaman", "Alvi", "Abbas", "Abbassi", "Abidi", "Abubaker", "Abubakar",
      "Adil", "Afridi", "Agha", "Ahmad", "Ahmadi", "Akbar", "Akbari",
      "Akhtar", "Akhundzada", "Alavi", "Alim", "Amiri", "Ansar", "Anwari",
      "Arif", "Ashraf", "Askari", "Asker", "Aslam", "Awan", "Ayub", "Azad",
      "Azam", "Azhar", "Aziz", "Azizi", "Babar", "Badri", "Bahadur",
      "Bahri", "Baloch", "Baluch", "Bangash", "Baqri", "Bashar", "Bashir",
      "Bhatti", "Bukhari", "Butt", "Chishti", "Choudhary", "Daoud",
      "Darwish", "Dehlavi", "Durrani", "Ebrahimi", "Elahi", "Emami",
      "Farhat", "Farid", "Farooq", "Fawzi", "Ghafoor", "Ghani", "Ghaznavi",
      "Ghazali", "Ghouri", "Gilani", "Gul", "Habibi", "Hafeez", "Hafiz",
      "Hakimi", "Hamid", "Hanif", "Haq", "Haroon", "Hashemi", "Hashmi",
      "Hassani", "Hayat", "Hayyat", "Hekmat", "Hosseini", "Humayun",
      "Hussaini", "Ibrahim", "Idrisi", "Imam", "Isfahani", "Ismail",
      "Israili", "Jabbar", "Jafri", "Jalali", "Jamali", "Javid", "Jawad",
      "Javed", "Jilani", "Junaid", "Kakar", "Kalam", "Kaleem", "Karimi",
      "Kashani", "Kazemi", "Kazi", "Kermani", "Khalid", "Khalil", "Khatib",
      "Khattak", "Khawaja", "Khorasani", "Khoso", "Kirmani", "Kohistani",
      "Kundi", "Lahori", "Lodhi", "Lodin", "Lone", "Madani", "Mahdi",
      "Mahmood", "Mahmoud", "Mahmudi", "Majeed", "Majidi", "Makhdoom",
      "Maleki", "Mandvi", "Mansoor", "Mansouri", "Marwat", "Masood",
      "Mazari", "Mirwais", "Mohammadi", "Mohsin", "Moin", "Moosavi",
      "Mughal", "Mukhtar", "Murad", "Mushtaq", "Nabi", "Nadeem", "Naderi",
      "Nagi", "Najafi", "Najjar", "Naqvi", "Naseri", "Nasir", "Nasseri",
      "Nawaz", "Niazi", "Noorani", "Noor", "Nouri", "Pashtun", "Pasha",
      "Patel", "Qadir", "Qadri", "Qasemi", "Qazi", "Rabbani", "Raees",
      "Rafiq", "Rahbar", "Rahimi", "Rahim", "Rahmani", "Rais", "Rajput",
      "Ramzi", "Rasheed", "Rashid", "Rauf", "Raza", "Rehman", "Rezaei",
      "Riaz", "Roshani", "Roshan", "Rostami", "Sadat", "Sadeghi", "Sadeq",
      "Saeed", "Safavi", "Safi", "Sahni", "Sajjad", "Saleh", "Salim",
      "Sami", "Samir", "Sarwar", "Sattar", "Sattari", "Shaikh", "Shakoor",
      "Shams", "Sharifi", "Sherazi", "Siddiq", "Sulaimani", "Sultani",
      "Suri", "Tabatabai", "Taheri", "Taimuri", "Talib", "Talpur", "Tamimi",
      "Tanvir", "Taqvi", "Tareen", "Tarin", "Tirmizi", "Turabi", "Umar",
      "Umer", "Usama", "Wali", "Wani", "Warsi", "Wazir", "Yacoub", "Yaqoob",
      "Yasir", "Yazdani", "Younus", "Yousaf", "Yousafzai", "Yousuf",
      "Yousufzai", "Yousufi", "Zahedi", "Zahid", "Zaidi", "Zain", "Zaman",
      "Zamani", "Zia", "Zubair", "Zubairi", "Ansar", "Barakat", "Zaman",
      "Rasheed", "Shah", "Qadir", "Haneef", "Naseer", "Awan", "Chishti",
      "Dar", "Farid", "Ghani", "Hashmi", "Iqbal", "Jalil", "Khalid",
      "Latif", "Mahmood", "Nawaz", "Osman", "Parvez", "Qamar", "Rafique",
      "Sadiq", "Tahir", "Usman", "Waqar", "Yasin", "Zahid">>

Member(x, list) == \E k \in 1..Len(list) : list[k] = x

\* [m for m in list if m != x], line 127
Without(list, x) == SelectSeq(list, LAMBDA m : m # x)

\* how many of its first elements random.choice draws from
DrawLimit(list) ==
    LET limit == IF list \in {LAST_NAMES, LAST_NAMES_2} THEN MaxLastDraw ELSE MaxDraw
    IN IF Len(list) < limit THEN Len(list) ELSE limit

\* the values random.choice(list) can return
random_choice(list) == {list[k] : k \in 1..DrawLimit(list)}

\* lines 28-32: the values generate_random_name can return
generate_random_name(name_list) ==
    IF name_list = <<>> THEN {""} ELSE random_choice(name_list)

\* the middle name kept as drawn
middle_name_unchecked(first_name, middle_name) == {middle_name}

\* lines 125-131: the middle name after the check against the first name
middle_name_after_check(first_name, middle_name) ==
    IF first_name = middle_name /\ Member(middle_name, FIRST_NAMES)
    THEN LET temp_middle_names == Without(MIDDLE_NAMES, first_name)
         IN IF temp_middle_names # <<>>
            THEN generate_random_name(temp_middle_names)
            ELSE {""}
    ELSE {middle_name}

\* excel-to-contacts.py, lines 196-201: the same check on its own lists
middle_name_after_check_2(first_name, middle_name) ==
    IF first_name = middle_name /\ Member(middle_name, FIRST_NAMES_2)
    THEN LET temp_middle_names == Without(MIDDLE_NAMES_2, first_name)
         IN IF temp_middle_names # <<>>
            THEN generate_random_name(temp_middle_names)
            ELSE {""}
    ELSE {middle_name}

\* excel-to-contacts.py, line 189
max_attempts == 10

\* the two scripts
Scripts == {"excel_to_contacts.py", "excel-to-contacts.py"}

\* lines 133-144
Row(first_name, middle_name, last_name, cleaned_phone_number) ==
    ("Name Prefix" :> "QTS")
    @@ ("FirstName" :> first_name)
    @@ ("Middle Name" :> middle_name)
    @@ ("Last Name" :> last_name)
    @@ ("Phonetic First Name" :> first_name)
    @@ ("Phonetic Last Name" :> last_name)
    @@ ("Phone 1 - Value" :> cleaned_phone_number)
    @@ ("Organization Name" :> "Quadrate Tech Solutions")
    @@ ("Organization Title" :> "QTS")
    @@ ("Website 1 - Value" :> "https://quadrate.lk")

\* the cells a phone column can hold
PhoneCells == {PyStr(<<"+", "1", "-", "2">>), PyNaN}

CsvInit ==
    /\ csvPc = "start"
    /\ phone_numbers_series \in UNION {[1..n -> PhoneCells] : n \in 0..MaxRows}
    /\ output_data_rows = <<>>
    /\ csvFile = [saved |-> FALSE, rows |-> <<>>]
    /\ script \in Scripts
    /\ generated_names_set = {}
    /\ attempt = 0
    /\ names_drawn = NoNames
    /\ PfIdle
    /\ MainIdle
    /\ PhoneIdle
    /\ GuiIdle

\* lines 72-115: read the input and select the phone column; on a file that
\* cannot be read or a column that is not there, print and return
CsvRead ==
    /\ csvPc = "start"
    /\ \E ok \in BOOLEAN :
          csvPc' = IF ok THEN "loop" ELSE "returned"
    /\ output_data_rows' = <<>>
    /\ generated_names_set' = {}
    /\ UNCHANGED <<phone_numbers_series, csvFile, script, attempt, names_drawn>>
    /\ UNCHANGED <<pfVars, mainVars, phoneVars, guiVars>>

\* lines 117-145: one iteration of the loop over the phone column
CsvRow ==
    /\ csvPc = "loop"
    /\ script = "excel_to_contacts.py"
    /\ Len(output_data_rows) < Len(phone_numbers_series)
    /\ LET cell == phone_numbers_series[Len(output_data_rows) + 1]
           cleaned_phone_number == clean_phone_number(cell)
       IN \E first_name \in generate_random_name(FIRST_NAMES),
             middle \in generate_random_name(MIDDLE_NAMES),
             last_name \in generate_random_name(LAST_NAMES) :
            \E middle_name \in middle_name_after_check(first_name, middle) :
               /\ names_drawn' = [first_name |-> first_name,
                                  middle_name |-> middle,
                                  last_name |-> last_name]
               /\ output_data_rows' =
                   Append(output_data_rows,
                          Row(first_name, middle_name, last_name, cleaned_phone_number))
    /\ UNCHANGED <<csvPc, phone_numbers_series, csvFile, script,
                   generated_names_set, attempt>>
    /\ UNCHANGED <<pfVars, mainVars, phoneVars, guiVars>>

\* excel-to-contacts.py, lines 184-221: one attempt of the loop that looks for
\* a name not used yet; the row is appended when the name is new, or when
\* this was the last of max_attempts attempts
CsvRowUnique ==
    /\ csvPc = "loop"
    /\ script = "excel-to-contacts.py"
    /\ Len(output_data_rows) < Len(phone_numbers_series)
    /\ LET cell == phone_numbers_series[Len(output_data_rows) + 1]
           cleaned_phone_number == clean_phone_number(cell)
       IN \E first_name \in generate_random_name(FIRST_NAMES_2),
             middle \in generate_random_name(MIDDLE_NAMES_2),
             last_name \in generate_random_name(LAST_NAMES_2) :
            \E middle_name \in middle_name_after_check_2(first_name, middle) :
               LET full_name_tuple == <<first_name, middle_name, last_name>>
                   row == Row(first_name, middle_name, last_name, cleaned_phone_number)
               IN /\ names_drawn' = [first_name |-> first_name,
                                     middle_name |-> middle,
                                     last_name |-> last_name]
                  /\ IF full_name_tuple \notin generated_names_set
                     THEN /\ generated_names_set' =
                                 generated_names_set \cup {full_name_tuple}
                          /\ output_data_rows' = Append(output_data_rows, row)
                          /\ attempt' = 0
                     ELSE /\ UNCHANGED generated_names_set
                          /\ IF attempt + 1 = max_attempts
                             THEN /\ output_data_rows' = Append(output_data_rows, row)
                                  /\ attempt' = 0
                             ELSE /\ UNCHANGED output_data_rows
                                  /\ attempt' = attempt + 1
    /\ UNCHANGED <<csvPc, phone_numbers_series, csvFile, script>>
    /\ UNCHANGED <<pfVars, mainVars, phoneVars, guiVars>>

\* lines 147-173: build the frame and save it; an exception of to_csv is
\* caught and printed
CsvSave ==
    /\ csvPc = "loop"
    /\ Len(output_data_rows) = Len(phone_numbers_series)
    /\ \E saved \in BOOLEAN :
          csvFile' = IF saved THEN [saved |-> TRUE, rows |-> output_data_rows]
                     ELSE csvFile
    /\ csvPc' = "returned"
    /\ UNCHANGED <<phone_numbers_series, output_data_rows, script,
                   generated_names_set, attempt, names_drawn>>
    /\ UNCHANGED <<pfVars, mainVars, phoneVars, guiVars>>

CsvNext == CsvRead \/ CsvRow \/ CsvRowUnique \/ CsvSave

SpecCsv == CsvInit /\ [][CsvNext]_vars

\* ---------------------------------------------------------- HL7ConverterGUI
\* the paths a file dialog can return; "" when it is cancelled
GuiPaths == {"", "first", "second"}

\* bool(self.input_file or self.output_file)
input_or_output(inp, out) == inp # "" \/ out # ""

\* line 220: bool(self.input_file and self.output_file)
update_convert_button(inp, out) == inp # "" /\ out # ""

\* lines 125-129 and 181-183
GuiInit ==
    /\ input_file = ""
    /\ output_file = ""
    /\ convert_button = FALSE
    /\ results_text = <<>>
    /\ dialog = [kind |-> "none", result |-> ""]
    /\ PfIdle
    /\ MainIdle
    /\ PhoneIdle
    /\ CsvIdle

\* lines 196-205
select_input_file ==
    /\ \E file_path \in GuiPaths :
        /\ dialog' = [kind |-> "open", result |-> file_path]
        /\ IF file_path # ""
           THEN /\ input_file' = file_path
                /\ convert_button' = update_convert_button(file_path, output_file)
           ELSE UNCHANGED <<input_file, convert_button>>
    /\ UNCHANGED <<output_file, results_text>>
    /\ UNCHANGED <<pfVars, mainVars, phoneVars, csvVars>>

\* lines 207-216
select_output_file ==
    /\ \E file_path \in GuiPaths :
        /\ dialog' = [kind |-> "save", result |-> file_path]
        /\ IF file_path # ""
           THEN /\ output_file' = file_path
                /\ convert_button' = update_convert_button(input_file, file_path)
           ELSE UNCHANGED <<output_file, convert_button>>
    /\ UNCHANGED <<input_file, results_text>>
    /\ UNCHANGED <<pfVars, mainVars, phoneVars, csvVars>>

\* lines 222-246: the Convert button was clicked; process_file is seen here
\* by what it gives back: the two counts, or an exception
convert_file ==
    /\ convert_button
    /\ \E exists \in BOOLEAN :
        IF ~exists
        THEN /\ dialog' = [kind |-> "critical", result |-> "not found"]
             /\ results_text' = results_text
        ELSE \E raised \in BOOLEAN, s \in 0..MaxGuiMessages, f \in 0..MaxGuiMessages :
                IF raised
                THEN /\ results_text' = << "Processing", "Error during conversion" >>
                     /\ dialog' = [kind |-> "critical", result |-> "error"]
                ELSE /\ results_text' =
                           << "Processing", "Conversion complete",
                              <<"Successfully converted", s>>,
                              <<"Failed conversions", f>>,
                              <<"Output saved to", output_file>> >>
                     /\ dialog' = [kind |-> IF s > 0 THEN "information" ELSE "warning",
                                   result |-> ""]
    /\ UNCHANGED <<input_file, output_file, convert_button>>
    /\ UNCHANGED <<pfVars, mainVars, phoneVars, csvVars>>

\* lines 248-250
clear_results ==
    /\ results_text' = <<>>
    /\ UNCHANGED <<input_file, output_file, convert_button, dialog>>
    /\ UNCHANGED <<pfVars, mainVars, phoneVars, csvVars>>

GuiNext == select_input_file \/ select_output_file \/ convert_file \/ clear_results

SpecGui == GuiInit /\ [][GuiNext]_vars

\* ================================================================= claims
\* the report process_file wrote, once it has written it
Finished == pc \in {"written", "done"}
Entries == outFile.entries

CountStatus(rs, st) == Cardinality({k \in DOMAIN rs : rs[k].conversion_status = st})

\* the parser rejected the message / accepted it
Rejected(o) == o.kind = "raise" /\ o.cls = "ValueError"
Accepted(o) == o.kind = "return"

\* C1: failure isolation.  A parser failure on a candidate is not raised to
\* the caller and does not stop the loop, the recorded status of a candidate
\* is a function of the parser's behaviour on that candidate alone, and a run
\* with one rejected candidate among accepted ones ends with exactly one
\* 'failed' outcome and 'success' for all the others.
C1_FailureIsolation ==
    /\ \A k \in 1..Len(calls) :
          Rejected(calls[k].outcome) =>
              /\ exc # calls[k].outcome.cls
              /\ Len(results) >= k
              /\ (k = Len(calls) /\ k < Len(messages) => pc = "loop")
    /\ \A j, k \in 1..Len(results) :
          calls[j].outcome = calls[k].outcome =>
              results[j].conversion_status = results[k].conversion_status
    /\ (/\ Finished
        /\ Cardinality({k \in 1..Len(calls) : Rejected(calls[k].outcome)}) = 1
        /\ \A k \in 1..Len(calls) :
              Rejected(calls[k].outcome) \/ Accepted(calls[k].outcome))
       => /\ CountStatus(Entries, "failed") = 1
          /\ CountStatus(Entries, "success") = Len(messages) - 1

\* C2: whenever the parser returns a value, the outcome appended for that
\* candidate is a success carrying exactly that value, and the success
\* counter counts it, whatever the value (an empty dict included).
C2_SuccessOnParserSuccess ==
    /\ \A k \in 1..Len(results) :
          Accepted(calls[k].outcome) =>
              /\ results[k].conversion_status = "success"
              /\ "data" \in DOMAIN results[k]
              /\ results[k].data = calls[k].outcome.value
    /\ successful = Cardinality({k \in 1..Len(calls) : Accepted(calls[k].outcome)})

\* C3 as stated: a condition that is not the validation failure of one
\* message (resource exhaustion, misconfiguration) is not recorded as a
\* 'failed' outcome; it reaches the caller and the loop halts.
C3_FatalPropagates ==
    \A k \in 1..Len(calls) :
        (calls[k].outcome.kind = "raise" /\ ~Rejected(calls[k].outcome)) =>
            /\ k = Len(calls)
            /\ Len(results) = k - 1
            /\ pc = "raised"
            /\ exc = calls[k].outcome.cls

\* C3 amended: only a condition whose class is not a subclass of Exception
\* (KeyboardInterrupt) reaches the caller and halts the loop without leaving
\* an outcome; every condition that is an Exception, resource exhaustion
\* (MemoryError) included, is recorded as a 'failed' outcome carrying str(e)
\* and the loop goes on.
C3_OnlyBaseExceptionsPropagate ==
    \A k \in 1..Len(calls) :
        LET o == calls[k].outcome
        IN o.kind = "raise" =>
            IF o.cls = "KeyboardInterrupt"
            THEN /\ k = Len(calls)
                 /\ Len(results) = k - 1
                 /\ pc = "raised"
                 /\ exc = o.cls
            ELSE /\ Len(results) >= k
                 /\ results[k].conversion_status = "failed"
                 /\ results[k].error = PyStr(o.msg)
                 /\ exc # o.cls

\* a MemoryError was recorded as a failed outcome and a later
\* KeyboardInterrupt left process_file
C3_Witness ==
    /\ pc = "raised"
    /\ exc = "KeyboardInterrupt"
    /\ \E k \in 1..Len(results) :
          /\ calls[k].outcome.kind = "raise"
          /\ calls[k].outcome.cls = "MemoryError"
          /\ results[k].conversion_status = "failed"
\* C4: completeness.  When process_file has written the report, the report
\* is whole and has exactly one entry per extracted candidate: none skipped,
\* none with two outcomes.
C4_Completeness ==
    Finished =>
        /\ outFile.exists /\ outFile.complete /\ ~outFile.stale
        /\ Len(Entries) = Len(messages)
        /\ \A k \in 1..Len(messages) :
              Cardinality({j \in DOMAIN Entries : Entries[j].message_index = k}) = 1

\* a report of two entries was written, one of them a failure
C4_Witness ==
    /\ pc = "done"
    /\ Len(messages) = 2
    /\ Len(Entries) = 2
    /\ CountStatus(Entries, "failed") >= 1

\* C5: order preservation.  The message_index values of the written report
\* are 1, 2, ..., N in this order, N the number of candidates, and the k-th
\* entry is the outcome of the k-th candidate in extraction order.
C5_OrderPreservation ==
    Finished =>
        /\ [k \in DOMAIN Entries |-> Entries[k].message_index]
              = [k \in 1..Len(messages) |-> k]
        /\ \A k \in DOMAIN Entries :
              /\ calls[k].message = messages[k]
              /\ Entries[k].conversion_status = "success"
                    => Entries[k].data = calls[k].outcome.value
              /\ Entries[k].conversion_status = "failed"
                    => Entries[k].original_message = messages[k]

\* a written report with two entries of different kinds for different texts
C5_Witness ==
    /\ Finished
    /\ Len(Entries) = 2
    /\ messages[1] # messages[2]
    /\ Entries[1].conversion_status # Entries[2].conversion_status

\* C6: count consistency.  At every point successful and failed are the
\* numbers of 'success' and 'failed' entries of results and add up to its
\* length; the returned pair equals the counts of the written report.
C6_CountConsistency ==
    /\ successful = CountStatus(results, "success")
    /\ failed = CountStatus(results, "failed")
    /\ successful + failed = Len(results)
    /\ pc = "done" =>
          ret = <<CountStatus(Entries, "success"), CountStatus(Entries, "failed")>>

\* process_file returned (1, 1)
C6_Witness ==
    /\ pc = "done"
    /\ ret = <<1, 1>>

\* C7: every 'failed' entry carries the raw text of the candidate at its
\* message_index; and when the parser accepts the first of two blocks and
\* rejects the second, the report is [1 success, 2 failed with the text of
\* the second block] and the returned counts are (1, 1).
C7_FailurePreservesRawText ==
    /\ \A k \in DOMAIN results :
          results[k].conversion_status = "failed" =>
              /\ results[k].message_index \in DOMAIN messages
              /\ results[k].original_message = messages[results[k].message_index]
    /\ (/\ pc = "done"
        /\ Len(calls) = 2
        /\ Accepted(calls[1].outcome)
        /\ Rejected(calls[2].outcome))
       => /\ Len(Entries) = 2
          /\ Entries[1].message_index = 1
          /\ Entries[1].conversion_status = "success"
          /\ Entries[2].message_index = 2
          /\ Entries[2].conversion_status = "failed"
          /\ Entries[2].original_message = messages[2]
          /\ ret = <<1, 1>>

\* C8: every entry has one of the two shapes: a success with message_index,
\* conversion_status and data, or a failure with message_index,
\* conversion_status, an error that is a string, and original_message.
IsSuccessShape(r) ==
    /\ DOMAIN r = {"message_index", "conversion_status", "data"}
    /\ r.conversion_status = "success"
    /\ r.data # PyNone

IsFailureShape(r) ==
    /\ DOMAIN r = {"message_index", "conversion_status", "error", "original_message"}
    /\ r.conversion_status = "failed"
    /\ r.error # PyNone
    /\ r.error[1] = "str"

C8_OutcomeShape ==
    \A k \in DOMAIN results :
        IsSuccessShape(results[k]) \/ IsFailureShape(results[k])

\* C9: a document that is empty or has no fence yields no candidate, the
\* parser is never invoked, no exception other than an I/O error leaves
\* process_file, and the report written has 0 outcomes with (0, 0) returned.
HasFence(s) == \E p \in 1..Len(s) : MatchAt(s, p, Fence)

C9_EmptyInput ==
    ~HasFence(content) =>
        /\ messages = <<>>
        /\ calls = <<>>
        /\ results = <<>>
        /\ exc \in {"", "OSError on input", "OSError on output"}
        /\ (pc = "loop" => ENABLED OpenOutput)
        /\ Finished => outFile = Report(<<>>)
        /\ pc = "done" => ret = <<0, 0>>

\* process_file returned for a non-empty document without a fence
C9_Witness ==
    /\ pc = "done"
    /\ content # <<>>
    /\ ~HasFence(content)
    /\ outFile = Report(<<>>)

\* C10: non-greedy extraction.  Each match ends at the first closing marker
\* after its opening marker, so matches do not overlap, no candidate
\* contains a closing marker, and a document made of fence A fence fence B
\* fence, A and B free of backticks, yields exactly <<A, B>>.
Extracted == pc \in {"loop", "written", "done"}

TwoBlocks(A, B) ==
    OpenMarker \o A \o CloseMarker \o OpenMarker \o B \o CloseMarker

NoBacktick(s) == \A p \in 1..Len(s) : s[p] # BT

C10_NonGreedy ==
    Extracted =>
        LET ms == re_finditer(content, 1)
        IN /\ Len(messages) = Len(ms)
           /\ \A k \in 1..Len(ms) :
                 /\ messages[k] = SubSeq(content, ms[k].gfrom, ms[k].gto)
                 /\ MatchAt(content, ms[k].from, OpenMarker)
                 /\ ms[k].gfrom = ms[k].from + Len(OpenMarker)
                 /\ MatchAt(content, ms[k].gto + 1, CloseMarker)
                 /\ \A q \in ms[k].gfrom..ms[k].gto :
                       ~MatchAt(content, q, CloseMarker)
                 /\ k > 1 => ms[k - 1].to < ms[k].from
           /\ \A k \in 1..Len(messages) :
                 \A q \in 1..Len(messages[k]) :
                     ~MatchAt(messages[k], q, CloseMarker)
           /\ \A a, b \in 0..Len(content) :
                 LET A == SubSeq(content, 5, 4 + a)
                     B == SubSeq(content, 13 + a, 12 + a + b)
                 IN (Len(content) = 16 + a + b /\ content = TwoBlocks(A, B)
                        /\ NoBacktick(A) /\ NoBacktick(B))
                    => messages = <<A, B>>

\* two candidates were extracted from a document of the form
\* fence A fence fence B fence
C10_Witness ==
    /\ Extracted
    /\ Len(messages) = 2
    /\ content = TwoBlocks(messages[1], messages[2])
    /\ messages[1] # messages[2]
\* C11: when the input cannot be read or the output cannot be written, the
\* error reaches the caller and the file at the output path is left as it
\* was: never truncated, never holding part of the report.
IOError == {"OSError on input", "OSError on output"}

C11_NoPartialWrite ==
    exc \in IOError =>
        /\ pc = "raised"
        /\ outFile \in {NoFile, StaleFile}

\* C12: process_file always terminates; it ends by an exception only for a
\* fatal condition (unreadable input, unwritable output, a parser condition
\* that is not an Exception); otherwise it has written the whole report and
\* returns the counts, (0, N) with N 'failed' outcomes when every candidate
\* failed.
FatalConditions == IOError \cup {"KeyboardInterrupt"}

C12_ReportProduced ==
    /\ <>(pc \in {"done", "raised"})
    /\ [](pc = "raised" => exc \in FatalConditions)
    /\ [](pc = "done" =>
            /\ exc = ""
            /\ outFile = Report(results)
            /\ Len(results) = Len(messages)
            /\ ret = <<CountStatus(results, "success"), CountStatus(results, "failed")>>
            /\ (\A k \in 1..Len(calls) : calls[k].outcome.kind = "raise")
                   => ret = <<0, Len(messages)>>)

\* process_file returned (0, 2) after the parser raised on both candidates
C12_Witness ==
    /\ pc = "done"
    /\ Len(messages) = 2
    /\ \A k \in 1..Len(calls) : calls[k].outcome.kind = "raise"
    /\ ret = <<0, 2>>
    /\ outFile = Report(results)
\* C13: phase ordering.  The extractor runs once, before any parser
\* invocation, and the candidate sequence does not change afterwards; every
\* parser invocation happens after the extraction and before the output is
\* opened; the output is opened once, and only after the last candidate has
\* been processed.
C13_PhaseOrdering ==
    /\ [](acquired["input"] <= 1 /\ acquired["output"] <= 1)
    /\ [](pc \in {"loop", "writing", "written", "done"} => acquired["input"] = 1)
    /\ [][messages' # messages => (pc = "reading" /\ calls = <<>>)]_vars
    /\ [][calls' # calls =>
            /\ pc = "loop"
            /\ messages' = messages
            /\ acquired["input"] = 1
            /\ acquired["output"] = 0
            /\ outFile' = outFile]_vars
    /\ [][outFile' # outFile =>
            /\ Len(calls) = Len(messages)
            /\ Len(results) = Len(messages)
            /\ calls' = calls]_vars

\* the report was written after two parser invocations
C13_Witness ==
    /\ pc = "written"
    /\ Len(calls) = 2
    /\ acquired = [h \in {"input", "output"} |-> 1]

\* C14: strictly sequential, no retries.  The k-th parser invocation is for
\* the k-th candidate, so each candidate is parsed at most once and exactly
\* once when the loop completes; an invocation starts only when the outcomes
\* of all earlier candidates have been appended; results only grows at its
\* end.
C14_SequentialNoRetry ==
    /\ [](/\ Len(calls) <= Len(messages)
          /\ \A k \in 1..Len(calls) : calls[k].message = messages[k])
    /\ [](Finished => Len(calls) = Len(messages))
    /\ [][calls' # calls =>
            /\ Len(calls') = Len(calls) + 1
            /\ SubSeq(calls', 1, Len(calls)) = calls
            /\ Len(results) = Len(calls)]_vars
    /\ [][/\ Len(results') \in {Len(results), Len(results) + 1}
          /\ SubSeq(results', 1, Len(results)) = results]_vars

\* the loop completed after a rejected first candidate and an accepted second
C14_Witness ==
    /\ Finished
    /\ Len(calls) = 2
    /\ Rejected(calls[1].outcome)
    /\ Accepted(calls[2].outcome)
    /\ Len(results) = 2

\* C16: scoped resources.  Each handle is opened at most once, and exactly
\* once when process_file returns; no handle is open while the loop runs the
\* parser, and none is open once process_file has returned or raised.
C16_ScopedResources ==
    /\ acquired["input"] <= 1
    /\ acquired["output"] <= 1
    /\ Cardinality(handles) <= 1
    /\ pc = "loop" => handles = {}
    /\ calls # <<>> => "input" \notin handles
    /\ pc \in {"written", "done", "raised"} => handles = {}
    /\ pc = "done" => acquired = [h \in {"input", "output"} |-> 1]

\* the dump failed after both handles had been opened, and none is open
C16_Witness ==
    /\ pc = "raised"
    /\ exc = "OSError on output"
    /\ acquired = [h \in {"input", "output"} |-> 1]
    /\ Len(calls) >= 1
    /\ handles = {}
\* C17: main() given an input path that does not exist exits with a non-zero
\* status without calling process_file and leaves the output file alone; when
\* the input exists and process_file returns, main prints the success count,
\* the failure count and the output location.
Printed(line) == \E k \in 1..Len(stdout) : stdout[k] = line

C17_CommandSurface ==
    /\ (mainPc # "start" /\ argv.n >= 2 /\ ~argv.input_exists) =>
          /\ mainPc = "exited"
          /\ exitStatus > 0
          /\ pc = "idle"
          /\ calls = <<>>
          /\ acquired = [h \in {"input", "output"} |-> 0]
          /\ outFile \in {NoFile, StaleFile}
    /\ mainPc = "returned" =>
          /\ argv.input_exists
          /\ pc = "done"
          /\ ret = <<CountStatus(Entries, "success"), CountStatus(Entries, "failed")>>
          /\ Printed([text |-> "Successfully converted", value |-> ret[1]])
          /\ Printed([text |-> "Failed conversions", value |-> ret[2]])
          /\ Printed([text |-> "Output saved to", value |-> "output_file"])

\* main was given an input and an output path, the input does not exist, and
\* main has exited
C17_Witness ==
    /\ argv.n = 3
    /\ ~argv.input_exists
    /\ mainPc = "exited"
    /\ exitStatus = 1
    /\ outFile = StaleFile
\* C18: the result of clean_phone_number has only digits after an optional
\* leading '+'; the '+' is there exactly when str(input) starts with '+'; its
\* digits are the digits of str(input) in their order; and the documented
\* examples give the documented results.
C18_CleanPhoneFormat ==
    cleaned_number # <<>> =>
        LET s == py_str(phone_number)
            out == cleaned_number[2]
        IN /\ cleaned_number[1] = "str"
           /\ \A p \in 1..Len(out) : out[p] \in Digits \/ (p = 1 /\ out[p] = "+")
           /\ (Len(out) > 0 /\ out[1] = "+") <=> (Len(s) > 0 /\ s[1] = "+")
           /\ SelectSeq(out, IsDigit) = SelectSeq(s, IsDigit)
           /\ phone_number = PyStr(Example1) => out = Expected1
           /\ phone_number = PyStr(Example2) => out = Expected2
           /\ phone_number = PyInt(Example3) => out = Expected2

\* '+7999745-12-15' was cleaned to '+79997451215'
C18_Witness ==
    /\ phone_number = PyStr(Example1)
    /\ cleaned_number = PyStr(Expected1)
\* C19: every 'Phone 1 - Value' of the CSV that convert_excel_to_custom_csv
\* saved matches ^\+?\d+$ (an optional '+', then one or more digits), and the
\* CSV has one row per cell of the input phone column.
MatchesPhonePattern(t) ==
    LET ds == IF startswith_plus(t) THEN Tail(t) ELSE t
    IN Len(ds) >= 1 /\ \A p \in 1..Len(ds) : ds[p] \in Digits

C19_PhoneColumnFormatted ==
    csvFile.saved =>
        /\ Len(csvFile.rows) = Len(phone_numbers_series)
        /\ \A k \in 1..Len(csvFile.rows) :
              MatchesPhonePattern(csvFile.rows[k]["Phone 1 - Value"])
\* C20: the Convert button is disabled at first; in every state it is enabled
\* exactly when input_file and output_file are both non-empty; and a file
\* dialog that is cancelled leaves input_file, output_file and the button as
\* they were.
C20_ConvertEnabled ==
    /\ ~convert_button
    /\ [](convert_button <=> (input_file # "" /\ output_file # ""))
    /\ [][(dialog'.kind \in {"open", "save"} /\ dialog'.result = "")
            => UNCHANGED <<input_file, output_file, convert_button>>]_vars

\* a dialog was cancelled while the button was enabled
C20_Witness ==
    /\ dialog = [kind |-> "save", result |-> ""]
    /\ input_file = "first"
    /\ output_file = "second"
    /\ convert_button

\* C21: in both scripts, whatever random.choice returns, every row that
\* convert_excel_to_custom_csv produced has a 'Middle Name' different from its
\* 'FirstName', a 'Phonetic First Name' equal to its 'FirstName' and a
\* 'Phonetic Last Name' equal to its 'Last Name'.
C21_MiddleDiffersFromFirst ==
    \A k \in 1..Len(output_data_rows) :
        LET row == output_data_rows[k]
        IN /\ row["Middle Name"] # row["FirstName"]
           /\ row["Phonetic First Name"] = row["FirstName"]
           /\ row["Phonetic Last Name"] = row["Last Name"]

\* the second script drew the same first and middle name, and appended the row
C21_Witness ==
    /\ script = "excel-to-contacts.py"
    /\ names_drawn.first_name = names_drawn.middle_name
    /\ attempt = 0
    /\ Len(output_data_rows) >= 1
    /\ output_data_rows[Len(output_data_rows)]["FirstName"] = names_drawn.first_name
    /\ output_data_rows[Len(output_data_rows)]["Last Name"] = names_drawn.last_name

\* the first script drew the same first and middle name, and saved the rows
C21_WitnessFirstScript ==
    /\ script = "excel_to_contacts.py"
    /\ names_drawn.first_name = names_drawn.middle_name
    /\ csvFile.saved
    /\ Len(csvFile.rows) >= 1

\* the second script appended a row after max_attempts names already used
C21_WitnessRetry ==
    /\ script = "excel-to-contacts.py"
    /\ Len(output_data_rows) > Cardinality(generated_names_set)
====
